---- MODULE Spec2Model ----
(***************************************************************************)
(* A model of the IAB330 motion-classification programs:                   *)
(*   train_best_model.py      trains candidates, saves the best bundle     *)
(*   rpi_application_code.py  live predictor on 18 features                *)
(*   live_predictor.py        live predictor with model fallback           *)
(*   node_collection_code.py  BLE -> MongoDB collector                     *)
(*   ble_data_collector.py    BLE -> CSV collector                         *)
(* Text is a sequence of one-character strings; a byte that is not valid   *)
(* UTF-8 is the character BadByte.                                         *)
(***************************************************************************)
EXTENDS Integers, Sequences, FiniteSets, TLC

VARIABLES
    files,             \* the working directory: the four .pkl files
    report,            \* what the last train_best_model run printed
    prog,              \* the program that is running ("none" when none is)
    pc,                \* where the running program is
    exitStatus,        \* the exit status of a program that has ended
    scanned,           \* the running program has called BleakScanner.discover
    model,             \* the running predictor's classifier global
    scaler,            \* the running predictor's scaler global
    label_encoder,     \* the running predictor's label encoder global
    prediction_count,  \* live_predictor.py's global
    buffer,            \* node_collection_code.py's global
    submitted,         \* the documents passed to insert_many, in order
    coll,              \* the documents MongoDB holds (node_collection_code.py)
    data_count,        \* ble_data_collector.py's global
    csv_rows,          \* the data rows written to the CSV (ble_data_collector.py)
    lastPayload,       \* the payload of the notification handled last
    out,               \* the lines the last callback printed
    calls,             \* the library calls the last callback made, in order
    escaped,           \* the exception that left the last callback ("None")
    delivered,         \* how many notifications the BLE stack has delivered
    returned,          \* how many callbacks have returned
    pending,           \* the delivered notifications whose callback has not started
    running            \* the callbacks that have started and not returned

vars == <<files, report, prog, pc, exitStatus, scanned, model, scaler,
          label_encoder, prediction_count, buffer, submitted, coll, data_count,
          csv_rows,
          lastPayload, out, calls, escaped, delivered, returned, pending, running>>

----------------------------------------------------------------------------
(* Text *)

BadByte == "BAD"

Digits == <<"0", "1", "2", "3", "4", "5", "6", "7", "8", "9">>

IsDigit(c) == \E i \in 1..10 : Digits[i] = c

DigitVal(c) == (CHOOSE i \in 1..10 : Digits[i] = c) - 1

IsSpace(c) == c = " "

\* bytes.decode("utf-8", errors="ignore"): undecodable bytes are dropped
DecodeIgnore(data) == SelectSeq(data, LAMBDA c : c # BadByte)

\* bytes.decode("utf-8"): UnicodeDecodeError (a ValueError) on a bad byte
DecodeStrict(data) ==
    IF \E i \in 1..Len(data) : data[i] = BadByte
    THEN [exc |-> "UnicodeDecodeError", val |-> <<>>]
    ELSE [exc |-> "None", val |-> data]

RECURSIVE LStrip(_)
LStrip(s) == IF s # <<>> /\ IsSpace(Head(s)) THEN LStrip(Tail(s)) ELSE s

RECURSIVE RStrip(_)
RStrip(s) ==
    IF s # <<>> /\ IsSpace(s[Len(s)]) THEN RStrip(SubSeq(s, 1, Len(s) - 1)) ELSE s

\* str.strip()
Strip(s) == RStrip(LStrip(s))

\* str.replace(" ", "")
RemoveSpaces(s) == SelectSeq(s, LAMBDA c : c # " ")

\* str.split(","): always at least one field, empty fields kept
RECURSIVE SplitFrom(_, _, _)
SplitFrom(s, i, cur) ==
    IF i > Len(s) THEN <<cur>>
    ELSE IF s[i] = "," THEN <<cur>> \o SplitFrom(s, i + 1, <<>>)
    ELSE SplitFrom(s, i + 1, Append(cur, s[i]))

Split(s) == SplitFrom(s, 1, <<>>)

\* [p for p in ... if p]
NonEmpty(fields) == SelectSeq(fields, LAMBDA p : p # <<>>)

\* str.startswith
StartsWith(s, pre) == Len(s) >= Len(pre) /\ SubSeq(s, 1, Len(pre)) = pre

\* sub in s
Contains(s, sub) ==
    \E i \in 1..(Len(s) + 1) :
        i + Len(sub) - 1 <= Len(s) /\ SubSeq(s, i, i + Len(sub) - 1) = sub

----------------------------------------------------------------------------
(* Numbers.  A value is [k |-> "num", v |-> n] or [k |-> "inf", v |-> 0].  *)

Num(n) == [k |-> "num", v |-> n]

\* a list built entry by entry, as a sequence
List(f) == SubSeq(f, 1, Len(f))

Inf == [k |-> "inf", v |-> 0]

RECURSIVE DigitsValue(_, _)
DigitsValue(s, acc) ==
    IF s = <<>> THEN acc ELSE DigitsValue(Tail(s), 10 * acc + DigitVal(Head(s)))

AllDigits(s) == s # <<>> /\ \A i \in 1..Len(s) : IsDigit(s[i])

\* float(text): surrounding whitespace is ignored; decimal digits and "inf"
\* are numbers, anything else is a ValueError
ParseFloat(text) ==
    LET t == Strip(text)
    IN  IF AllDigits(t) THEN [exc |-> "None", val |-> Num(DigitsValue(t, 0))]
        ELSE IF t = <<"i", "n", "f">> THEN [exc |-> "None", val |-> Inf]
        ELSE [exc |-> "ValueError", val |-> Num(0)]

\* int(text): decimal digits only; "inf" is a ValueError
ParseInt(text) ==
    LET t == Strip(text)
    IN  IF AllDigits(t) THEN [exc |-> "None", val |-> Num(DigitsValue(t, 0))]
        ELSE [exc |-> "ValueError", val |-> Num(0)]

RECURSIVE Pow2(_)
Pow2(e) == IF e = 0 THEN 1 ELSE 2 * Pow2(e - 1)

RECURSIVE Log2(_)
Log2(n) == IF n < 2 THEN 0 ELSE 1 + Log2(n \div 2)

\* np.array(..., dtype=np.float32) on a non-negative integer value: 24 bits
\* of mantissa, round to nearest, ties to even
ToFloat32(x) ==
    IF x.k # "num" THEN x
    ELSE LET e == Log2(x.v)
         IN  IF e < 24 THEN x
             ELSE LET ulp == Pow2(e - 23)
                      q == x.v \div ulp
                      r == x.v % ulp
                      up == 2 * r > ulp \/ (2 * r = ulp /\ q % 2 = 1)
                  IN  Num(IF up THEN (q + 1) * ulp ELSE q * ulp)

----------------------------------------------------------------------------
(* The objects joblib saves and loads.  A file that does not exist holds    *)
(* the None object of its type.                                            *)

NoModel == [kind |-> "None", n |-> 0, k |-> 0, scaled |-> FALSE]

NoScaler == [kind |-> "None", n |-> 0, mean |-> 0]

NoEncoder == [kind |-> "None", classes |-> <<>>]

\* len(feature_columns): the columns train_best_model.py fits on
NumFeatures == 18

\* the values predict_movement_direction needs: ten features, label, student
LiveWidth == 12

\* the fields of one reading: 18 statistics, label, studentId
NodeWidth == 20

\* len(CSV_HEADER)
CsvWidth == 12

\* the features the notebook-trained SVM of live_predictor.py has
\* (meanX .. rangeZ and wristArmed)
NotebookFeatures == 10

\* every label the training CSV may hold, in sorted order
LabelOrder == <<"down", "left", "up">>

LabelNames == {LabelOrder[i] : i \in 1..Len(LabelOrder)}

\* how often a label occurs in the training CSV: never, once (too few for
\* the stratified split), or often enough
ClassCounts == {0, 1, 2}

\* the accuracies a candidate may reach are 0..MaxAcc
MaxAcc == 1

\* the mean a fitted StandardScaler may hold is 0..MaxMean
MaxMean == 1

\* train_test_split(stratify=...) needs two rows of every class, and SVC
\* needs two classes
CanTrain(y) ==
    /\ Cardinality({l \in LabelNames : y[l] > 0}) >= 2
    /\ \A l \in LabelNames : y[l] # 1

\* a fit that keeps only the first two classes
LabelEncoderFitFirstTwo(y) ==
    [kind |-> "LabelEncoder",
     classes |-> SubSeq(SelectSeq(LabelOrder, LAMBDA l : y[l] > 0), 1, 2)]

\* LabelEncoder.fit: classes_ is the sorted list of the distinct labels
LabelEncoderFit(y) ==
    [kind |-> "LabelEncoder",
     classes |-> SelectSeq(LabelOrder, LAMBDA l : y[l] > 0)]

\* LabelEncoder.transform of one label: its index in classes_
LabelEncoderTransform(enc, name) ==
    IF \E i \in 1..Len(enc.classes) : enc.classes[i] = name
    THEN [exc |-> "None",
          val |-> (CHOOSE i \in 1..Len(enc.classes) : enc.classes[i] = name) - 1]
    ELSE [exc |-> "ValueError", val |-> 0]

\* LabelEncoder.inverse_transform of one index: classes_[index]
InverseTransform(enc, idx) ==
    IF idx \in 0..(Len(enc.classes) - 1)
    THEN [exc |-> "None", val |-> enc.classes[idx + 1]]
    ELSE [exc |-> "ValueError", val |-> ""]

IsFinite(x) == \A i \in 1..Len(x) : x[i].k = "num"

\* StandardScaler.transform of one row: ValueError on a row of another
\* width or with an infinite entry, else each entry minus the fitted mean
ScalerTransform(sc, x) ==
    IF Len(x) # sc.n \/ ~IsFinite(x)
    THEN [exc |-> "ValueError", val |-> <<>>]
    ELSE [exc |-> "None", val |-> List([i \in 1..Len(x) |-> Num(x[i].v - sc.mean)])]

RECURSIVE SumValues(_)
SumValues(x) == IF x = <<>> THEN 0 ELSE Head(x).v + SumValues(Tail(x))

\* classifier.predict of one row: ValueError on a row of another width or
\* with an infinite entry, else one of the k encoded classes it was fitted
\* on, as some function of the row
ModelPredict(m, x) ==
    IF Len(x) # m.n \/ ~IsFinite(x)
    THEN [exc |-> "ValueError", val |-> 0]
    ELSE [exc |-> "None", val |-> (x[1].v + SumValues(x)) % m.k]

----------------------------------------------------------------------------
(* train_best_model.py *)

NoReport ==
    [status |-> "none", labels |-> [l \in LabelNames |-> 0], classes |-> <<>>,
     trained |-> <<>>,
     accuracy |-> [c \in {} |-> 0], best |-> "", uses_scaler |-> FALSE]

\* the keys of the models dict, in insertion order
Candidates(xgb) ==
    <<"Random Forest">> \o (IF xgb THEN <<"XGBoost">> ELSE <<>>) \o <<"SVM RBF">>

CandidateKind(name) ==
    CASE name = "Random Forest" -> "RandomForestClassifier"
      [] name = "XGBoost" -> "XGBClassifier"
      [] OTHER -> "SVC"

\* models[name]['uses_scaler']
UsesScaler(name) == name = "SVM RBF"

\* a max that moves on to the next argument when it is as great
KeepsLastOnTie(a, b) == b >= a

\* max(...) keeps its first argument unless the next is strictly greater
KeepsFirstOnTie(a, b) == b > a

\* max(models.keys(), key=lambda k: models[k]['accuracy'])
RECURSIVE MaxByAccuracy(_, _, _)
MaxByAccuracy(names, acc, best) ==
    IF names = <<>> THEN best
    ELSE MaxByAccuracy(Tail(names), acc,
             IF KeepsFirstOnTie(acc[best], acc[Head(names)])
             THEN Head(names) ELSE best)

BestName(names, acc) == MaxByAccuracy(Tail(names), acc, Head(names))

\* The files and the report of one run on the labels y, with xgboost
\* installed or not, the candidates' accuracies acc and the scaler mean mu.
TrainedFiles(f, y, xgb, acc, mu) ==
    LET enc == LabelEncoderFit(y)
        names == Candidates(xgb)
        best_name == BestName(names, acc)
        best == [kind |-> CandidateKind(best_name), n |-> NumFeatures,
                 k |-> Cardinality({l \in LabelNames : y[l] > 0}),
                 scaled |-> UsesScaler(best_name)]
        fitted == [kind |-> "StandardScaler", n |-> NumFeatures, mean |-> mu]
    IN  [f EXCEPT !.best = best,
                  !.enc = enc,
                  !.scaler = IF UsesScaler(best_name) THEN fitted ELSE @]

TrainedReport(y, xgb, acc) ==
    LET names == Candidates(xgb)
        best_name == BestName(names, acc)
    IN  [status |-> "saved", labels |-> y, classes |-> LabelEncoderFit(y).classes,
         trained |-> names,
         accuracy |-> [c \in {names[i] : i \in 1..Len(names)} |-> acc[c]],
         best |-> best_name, uses_scaler |-> UsesScaler(best_name)]

----------------------------------------------------------------------------
(* Files and loading *)

EmptyDir == [best |-> NoModel, svm |-> NoModel, enc |-> NoEncoder, scaler |-> NoScaler]

\* a directory in which the SVM notebook that live_predictor.py names has
\* left its SVM, fitted on the ten features live_predictor.py extracts
NotebookDir ==
    [best |-> NoModel,
     svm |-> [kind |-> "SVC", n |-> NotebookFeatures, k |-> 2, scaled |-> TRUE],
     enc |-> [kind |-> "LabelEncoder", classes |-> <<"down", "up">>],
     scaler |-> [kind |-> "StandardScaler", n |-> NotebookFeatures, mean |-> 1]]

\* a directory in which best_motion_classifier.pkl and feature_scaler.pkl
\* are cut short and do not unpickle, beside the notebook's SVM and encoder
BrokenDir ==
    [NotebookDir EXCEPT
        !.best = [kind |-> "Corrupt", n |-> 0, k |-> 0, scaled |-> FALSE],
        !.scaler = [kind |-> "Corrupt", n |-> 0, mean |-> 0]]

\* a directory in which the notebook's SVM lies without label_encoder.pkl
NoEncoderDir == [NotebookDir EXCEPT !.enc = NoEncoder]

\* os.path.exists
Exists(obj) == obj.kind # "None"

\* a load that reports no error for a missing file
JoblibLoadQuiet(obj) == "None"

\* joblib.load: FileNotFoundError for a missing file, another error for a
\* file that does not unpickle
JoblibLoad(obj) ==
    IF ~Exists(obj) THEN "FileNotFoundError"
    ELSE IF obj.kind = "Corrupt" THEN "UnpicklingError"
    ELSE "None"

\* Exception classes: exc is an instance of cls
IsA(exc, cls) ==
    \/ cls = "Exception"
    \/ exc = cls
    \/ exc = "UnicodeDecodeError" /\ cls = "ValueError"

\* an except clause naming `classes` handles exc
Caught(exc, classes) == exc # "None" /\ \E c \in classes : IsA(exc, c)

\* rpi_application_code.py: the module-level load; the first load that
\* fails ends the try block
RpiLoad(f) ==
    LET e1 == JoblibLoad(f.best)
        e2 == JoblibLoad(f.scaler)
        e3 == JoblibLoad(f.enc)
        exc == IF e1 # "None" THEN e1 ELSE IF e2 # "None" THEN e2 ELSE e3
    IN  [exc |-> exc,
         model |-> IF e1 = "None" THEN f.best ELSE NoModel,
         scaler |-> IF e1 = "None" /\ e2 = "None" THEN f.scaler ELSE NoScaler,
         label_encoder |-> IF exc = "None" THEN f.enc ELSE NoEncoder]

\* live_predictor.py: one round of the loop over model_files_priority
TryCandidate(f, candidate) ==
    LET loaded == Exists(candidate)
                  /\ JoblibLoad(candidate) = "None"
                  /\ JoblibLoad(f.enc) = "None"
    IN  [ok |-> loaded,
         model |-> IF loaded THEN candidate ELSE NoModel,
         scaler |-> IF loaded /\ Exists(f.scaler) /\ JoblibLoad(f.scaler) = "None"
                    THEN f.scaler ELSE NoScaler,
         label_encoder |-> IF loaded THEN f.enc ELSE NoEncoder]

\* a loader that tries svm_motion_classifier.pkl before the best model
LoadSvmFirst(f) ==
    LET first == TryCandidate(f, f.svm)
        second == TryCandidate(f, f.best)
    IN  IF first.ok THEN first
        ELSE IF second.ok THEN second
        ELSE [ok |-> FALSE, model |-> NoModel, scaler |-> NoScaler,
              label_encoder |-> NoEncoder]

\* live_predictor.py
load_model_with_fallback(f) ==
    LET first == TryCandidate(f, f.best)
        second == TryCandidate(f, f.svm)
    IN  IF first.ok THEN first
        ELSE IF second.ok THEN second
        ELSE [ok |-> FALSE, model |-> NoModel, scaler |-> NoScaler,
              label_encoder |-> NoEncoder]

----------------------------------------------------------------------------
(* Printed lines and recorded library calls *)

\* a printed line: its fixed text, the text and the numbers put into it
Line(t, s, n) == [t |-> t, s |-> s, n |-> n]

Call(fn, arg) == [fn |-> fn, arg |-> arg]

\* the payloads' fields: field i holds one digit, so that the order of the
\* fields shows in every vector built from them
Field(i) == <<Digits[(i % 3) + 1]>>

RECURSIVE Join(_)
Join(fields) ==
    IF fields = <<>> THEN <<>>
    ELSE IF Len(fields) = 1 THEN Head(fields)
    ELSE Head(fields) \o <<",">> \o Join(Tail(fields))

\* a payload of n fields whose field pos (if any) is d
MkPayload(n, pos, d) == Join(List([i \in 1..n |-> IF i = pos THEN d ELSE Field(i)]))

\* fields a peripheral or a noisy link may send in place of a digit
OddFields ==
    { <<>>, <<" ">>, <<"x">>, <<"1", " ", "2">>, <<"i", "n", "f">>,
      <<"1", BadByte>>, <<"1", "6", "7", "7", "7", "2", "1", "7">> }

\* payloads run from one field too few to MaxExtra fields too many
MaxExtra == 2

PayloadsAround(width, odd) ==
    {MkPayload(n, 0, <<>>) : n \in {0} \cup ((width - 1)..(width + MaxExtra))}
    \cup {MkPayload(n, 2, d) : n \in {width, width + 1}, d \in odd}

\* a header line, as the peripheral sends it before its readings
HeaderLine(width) == <<"m", "e", "a", "n", "X", ",">> \o MkPayload(width - 1, 0, <<>>)

\* the payloads each program is sent
RpiPayloads ==
    PayloadsAround(NumFeatures, OddFields)
    \cup {MkPayload(NumFeatures, NumFeatures, <<"i", "n", "f">>)}

LivePayloads ==
    PayloadsAround(LiveWidth, OddFields)
    \cup {MkPayload(LiveWidth, 10, <<"i", "n", "f">>), HeaderLine(LiveWidth)}

NodePayloads ==
    PayloadsAround(NodeWidth, {<<>>, <<"1", " ", "2">>, <<"1", BadByte>>})

BlePayloads ==
    PayloadsAround(CsvWidth, {<<>>, <<"1", BadByte>>})
    \cup {HeaderLine(CsvWidth), <<">", ">", ">">> \o MkPayload(CsvWidth, 0, <<>>)}

\* every classifier, scaler and label encoder a directory may hold
Models ==
    {[kind |-> kind, n |-> NumFeatures, k |-> k, scaled |-> kind = "SVC"] :
        kind \in {"RandomForestClassifier", "XGBClassifier", "SVC"},
        k \in 2..Len(LabelOrder)}
    \cup {NotebookDir.svm}

Scalers ==
    {[kind |-> "StandardScaler", n |-> NumFeatures, mean |-> mu] : mu \in 0..MaxMean}
    \cup {NotebookDir.scaler, NoScaler}

Encoders ==
    {LabelEncoderFit(y) : y \in {z \in [LabelNames -> ClassCounts] : CanTrain(z)}}
    \cup {NotebookDir.enc}

----------------------------------------------------------------------------
(* rpi_application_code.py *)

\* an except clause that names IndexError only
RpiExceptIndexError == {"IndexError"}

\* except Exception
RpiExcept == {"Exception"}

\* the parts taken from the last one backwards
RpiFeatureIndexReversed(i) == NumFeatures + 1 - i

\* the index of the part that becomes entry i of the feature vector
\* (parts[i] for i in range(18))
RpiFeatureIndex(i) == i

\* a handler that gives the classifier the raw row
RpiScaleSkipped(sc, features) == [exc |-> "None", val |-> features]

\* features_normalized = scaler.transform(features)
RpiScale(sc, features) == ScalerTransform(sc, features)

\* the try block of handle_notify
RpiTry(parts, m, sc, enc) ==
    IF Len(parts) < NumFeatures
    THEN [exc |-> "None", calls |-> <<>>,
          out |-> <<Line("Error: Expected at least 18 features", <<>>, <<Num(Len(parts))>>)>>]
    ELSE
    LET parsed == List([i \in 1..NumFeatures |-> ParseFloat(parts[RpiFeatureIndex(i)])])
    IN  IF \E i \in 1..NumFeatures : parsed[i].exc # "None"
        THEN [exc |-> "ValueError", calls |-> <<>>, out |-> <<>>]
        ELSE
        LET features == List([i \in 1..NumFeatures |-> ToFloat32(parsed[i].val)])
            normalized == RpiScale(sc, features)
            c1 == <<Call("scaler.transform", features)>>
        IN  IF normalized.exc # "None"
            THEN [exc |-> normalized.exc, calls |-> c1, out |-> <<>>]
            ELSE
            LET encoded == ModelPredict(m, normalized.val)
                c2 == Append(c1, Call("model.predict", normalized.val))
            IN  IF encoded.exc # "None"
                THEN [exc |-> encoded.exc, calls |-> c2, out |-> <<>>]
                ELSE
                LET label == InverseTransform(enc, encoded.val)
                    c3 == Append(c2, Call("label_encoder.inverse_transform",
                                          <<Num(encoded.val)>>))
                IN  IF label.exc # "None"
                    THEN [exc |-> label.exc, calls |-> c3, out |-> <<>>]
                    ELSE [exc |-> "None", calls |-> c3,
                          out |-> <<Line("Predicted", <<label.val>>, <<>>)>>]

\* handle_notify(_sender, data)
rpi_handle_notify(data, m, sc, enc) ==
    LET msg == Strip(DecodeIgnore(data))
        parts == NonEmpty(Split(RemoveSpaces(msg)))
        body == RpiTry(parts, m, sc, enc)
        handled == Caught(body.exc, RpiExcept)
    IN  [out |-> <<Line("[notify]", msg, <<>>)>> \o body.out \o
                 (IF handled THEN <<Line("Error processing data", <<body.exc>>, <<>>)>>
                  ELSE <<>>),
         calls |-> body.calls,
         escaped |-> IF handled THEN "None" ELSE body.exc]

\* handle_notify on every payload and bundle, worked out once
RpiHandled ==
    [data \in RpiPayloads, m \in Models, sc \in Scalers, enc \in Encoders |->
        rpi_handle_notify(data, m, sc, enc)]

----------------------------------------------------------------------------
(* live_predictor.py *)

\* "Show feature values occasionally": every SamplePeriod-th prediction
SamplePeriod == 10

\* except (ValueError, IndexError), twice in predict_movement_direction
LiveExcept == {"ValueError", "IndexError"}

\* except Exception in notification_handler
LiveHandlerExcept == {"Exception"}

NoResult ==
    [none |-> TRUE, prediction |-> "", received_label |-> <<>>, confidence |-> 0,
     icon |-> "", features |-> <<>>, student_id |-> <<>>]

\* str.upper() of a label
Upper(l) ==
    CASE l = "down" -> "DOWN"
      [] l = "left" -> "LEFT"
      [] l = "up" -> "UP"
      [] OTHER -> l

\* max(svm_model.predict_proba(x)[0]), in tenths: some value the classifier
\* computes from the row
PredictProbaMax(m, x) == 4 + ((SumValues(x) \div m.k) % 6)

StatusIcon(confidence) ==
    IF confidence > 7 THEN "target" ELSE IF confidence > 5 THEN "bolt" ELSE "question"

\* whether predict_movement_direction scales the row: scaler is not None
LiveScales(sc) == sc.kind # "None"

\* predict_movement_direction from the scaling on, inside the outer try
LivePredictRow(values, feature_values, m, sc, enc) ==
    LET features_array ==
            List([i \in 1..Len(feature_values) |-> ToFloat32(feature_values[i])])
        scaledRow == IF LiveScales(sc) THEN ScalerTransform(sc, features_array)
                     ELSE [exc |-> "None", val |-> features_array]
        c1 == IF LiveScales(sc) THEN <<Call("scaler.transform", features_array)>>
              ELSE <<>>
    IN  IF scaledRow.exc # "None"
        THEN [exc |-> scaledRow.exc, calls |-> c1, result |-> NoResult, incr |-> 0]
        ELSE
        LET encoded == ModelPredict(m, scaledRow.val)
            c2 == Append(c1, Call("model.predict", scaledRow.val))
        IN  IF encoded.exc # "None"
            THEN [exc |-> encoded.exc, calls |-> c2, result |-> NoResult, incr |-> 0]
            ELSE
            LET label == InverseTransform(enc, encoded.val)
                c3 == Append(c2, Call("label_encoder.inverse_transform",
                                      <<Num(encoded.val)>>))
                confidence == PredictProbaMax(m, scaledRow.val)
            IN  IF label.exc # "None"
                THEN [exc |-> label.exc, calls |-> c3, result |-> NoResult,
                      incr |-> 0]
                ELSE [exc |-> "None", calls |-> c3, incr |-> 1,
                      result |-> [none |-> FALSE, prediction |-> label.val,
                                  received_label |-> Strip(values[11]),
                                  confidence |-> confidence,
                                  icon |-> StatusIcon(confidence),
                                  features |-> feature_values,
                                  student_id |-> Strip(values[12])]]

\* predict_movement_direction(data_string): the result (or None), the lines
\* it prints, and by how much it increments prediction_count
predict_movement_direction(data_string, m, sc, enc) ==
    LET values == Split(Strip(data_string))
        quiet == [exc |-> "None", calls |-> <<>>, out |-> <<>>, result |-> NoResult,
                  incr |-> 0]
    IN  IF Len(values) < LiveWidth THEN quiet
        ELSE
        LET parsed == List([i \in 1..NotebookFeatures |-> ParseFloat(values[i])])
            wrist_armed == ParseInt(values[NotebookFeatures])
        IN  IF (\E i \in 1..NotebookFeatures : parsed[i].exc # "None")
               \/ wrist_armed.exc # "None"
            THEN quiet
            ELSE
            LET row == LivePredictRow(
                           values,
                           List([i \in 1..NotebookFeatures |-> parsed[i].val]),
                           m, sc, enc)
            IN  IF Caught(row.exc, LiveExcept)
                THEN [exc |-> "None", calls |-> row.calls, result |-> NoResult,
                      incr |-> row.incr,
                      out |-> <<Line("Error parsing data", <<row.exc>>, <<>>)>>]
                ELSE [exc |-> row.exc, calls |-> row.calls, result |-> row.result,
                      incr |-> row.incr, out |-> <<>>]

\* lines that number the prediction
LiveResultLinesNumbered(result, count) ==
    <<Line("Predicted", <<result.icon, Upper(result.prediction)>>, <<Num(count)>>)>>

\* the lines notification_handler prints for a result; the time of day in
\* the first line is left out
LiveResultLines(result, count) ==
    <<Line("Predicted",
           <<result.icon, Upper(result.prediction), "| Actual:">>
               \o result.received_label \o <<"| Student:">> \o result.student_id,
           <<Num(result.confidence)>>)>>
    \o (IF count % SamplePeriod = 0
        THEN <<Line("Sample features (X-axis)", <<>>, SubSeq(result.features, 1, 3))>>
        ELSE <<>>)

\* the try block of notification_handler up to the return of
\* predict_movement_direction
LivePredictPhase(data, m, sc, enc) ==
    LET decoded == DecodeStrict(data)
        data_string == Strip(decoded.val)
        quiet == [exc |-> "None", calls |-> <<>>, out |-> <<>>, incr |-> 0,
                  result |-> NoResult]
    IN  IF decoded.exc # "None" THEN [quiet EXCEPT !.exc = decoded.exc]
        ELSE IF data_string = <<>> \/ Contains(data_string, <<"m", "e", "a", "n", "X">>)
        THEN quiet
        ELSE predict_movement_direction(data_string, m, sc, enc)

\* the rest of the try block: `if result:` and the prints, which read the
\* global prediction_count as it is then
LivePrintPhase(phase, countNow) ==
    IF phase.exc = "None" /\ ~phase.result.none
    THEN LiveResultLines(phase.result, countNow) ELSE <<>>

\* the except clause of notification_handler
LiveExceptLines(exc) ==
    IF Caught(exc, LiveHandlerExcept)
    THEN <<Line("Error in notification handler", <<exc>>, <<>>)>> ELSE <<>>

LiveEscaped(exc) == IF Caught(exc, LiveHandlerExcept) THEN "None" ELSE exc

\* the first phase on every payload and bundle, worked out once
LivePredicted ==
    [data \in LivePayloads, m \in Models, sc \in Scalers, enc \in Encoders |->
        LivePredictPhase(data, m, sc, enc)]

\* notification_handler from its first phase on, with prediction_count =
\* count at its start
LiveHandle(phase, count) ==
    [out |-> phase.out \o LivePrintPhase(phase, count + phase.incr)
             \o LiveExceptLines(phase.exc),
     calls |-> phase.calls,
     count |-> count + phase.incr,
     escaped |-> LiveEscaped(phase.exc)]

\* notification_handler(sender, data), run to completion with
\* prediction_count = count at its start
live_notification_handler(data, m, sc, enc, count) ==
    LiveHandle(LivePredicted[data, m, sc, enc], count)

----------------------------------------------------------------------------
(* node_collection_code.py *)

BATCH_SIZE == 1

\* except Exception in parse_reading
ParseReadingExcept == {"Exception"}

\* except Exception around insert_many
NodeInsertExcept == {"Exception"}

NoDoc == [kind |-> "None", raw |-> <<>>, data |-> <<>>]

\* a split that keeps the empty fields
ParseReadingPartsKeepEmpty(text) == Split(RemoveSpaces(text))

\* parts = [p for p in text.replace(" ", "").split(",") if p]
ParseReadingParts(text) == NonEmpty(Split(RemoveSpaces(text)))

\* the try block of parse_reading; measured_at, the time of day, is left out
ParseReadingTry(payload) ==
    LET decoded == DecodeStrict(payload)
        text == Strip(decoded.val)
        parts == ParseReadingParts(text)
    IN  IF decoded.exc # "None" THEN [exc |-> decoded.exc, doc |-> NoDoc]
        ELSE IF Len(parts) = NodeWidth
        THEN [exc |-> "None",
              doc |-> [kind |-> "doc", raw |-> text,
                       data |-> List([i \in 1..NodeWidth |-> parts[i]])]]
        ELSE [exc |-> "None", doc |-> NoDoc]

\* parse_reading(payload): the document, or None; exc is what leaves it
parse_reading(payload) ==
    LET body == ParseReadingTry(payload)
    IN  IF Caught(body.exc, ParseReadingExcept) THEN [exc |-> "None", doc |-> NoDoc]
        ELSE body

\* what coll.insert_many may do with a batch: store it; fail; or store it
\* and fail all the same (the reply is lost)
DbOutcomes ==
    { [exc |-> "None", stored |-> TRUE],
      [exc |-> "AutoReconnect", stored |-> FALSE],
      [exc |-> "AutoReconnect", stored |-> TRUE] }

\* the message handle_notify prints and what parse_reading returns, on
\* every payload, worked out once
NodeParsed ==
    [data \in NodePayloads |->
        [msg |-> Strip(DecodeIgnore(data)), reading |-> parse_reading(data)]]

\* handle_notify up to buffer.append(doc)
NodeReceive(data, buf) ==
    LET msg == NodeParsed[data].msg
        r == NodeParsed[data].reading
        accepted == r.exc = "None" /\ r.doc.kind # "None"
    IN  [out |-> <<Line("[notify]", msg, <<>>)>>,
         exc |-> r.exc,
         accepted |-> accepted,
         doc |-> r.doc,
         buffer |-> IF accepted THEN Append(buf, r.doc) ELSE buf]

\* a batch that is sent only once it is longer than BATCH_SIZE
NodeBatchOverfull(buf) == Len(buf) > BATCH_SIZE

\* if len(buffer) >= BATCH_SIZE
NodeBatchFull(buf) == Len(buf) >= BATCH_SIZE

\* an insert that resets the buffer only after insert_many has returned
NodeFlushKeepsFailed(buf, stored, db) ==
    [out |-> IF db.exc = "None"
             THEN <<Line("Inserted docs", <<>>, <<Num(Len(buf))>>)>>
             ELSE <<Line("Insert failed", <<db.exc>>, <<>>)>>,
     escaped |-> "None",
     batch |-> buf,
     coll |-> IF db.stored THEN stored \o buf ELSE stored,
     buffer |-> IF db.exc = "None" THEN <<>> ELSE buf]

\* the insert of handle_notify: insert_many, the print, and buffer = []
NodeFlush(buf, stored, db) ==
    [out |-> IF db.exc = "None"
             THEN <<Line("Inserted docs", <<>>, <<Num(Len(buf))>>)>>
             ELSE IF Caught(db.exc, NodeInsertExcept)
             THEN <<Line("Insert failed", <<db.exc>>, <<>>)>>
             ELSE <<>>,
     escaped |-> IF Caught(db.exc, NodeInsertExcept) THEN "None" ELSE db.exc,
     batch |-> buf,
     coll |-> IF db.stored THEN stored \o buf ELSE stored,
     buffer |-> IF db.exc = "None" \/ Caught(db.exc, NodeInsertExcept)
                THEN <<>> ELSE buf]

\* handle_notify(_sender, data), run to completion
node_handle_notify(data, buf, stored, db) ==
    LET rcv == NodeReceive(data, buf)
        flush == NodeFlush(rcv.buffer, stored, db)
    IN  IF rcv.exc # "None"
        THEN [out |-> rcv.out, escaped |-> rcv.exc, buffer |-> rcv.buffer,
              coll |-> stored, batch |-> <<>>]
        ELSE IF rcv.accepted /\ NodeBatchFull(rcv.buffer)
        THEN [out |-> rcv.out \o flush.out, escaped |-> flush.escaped,
              buffer |-> flush.buffer, coll |-> flush.coll, batch |-> flush.batch]
        ELSE [out |-> rcv.out, escaped |-> "None", buffer |-> rcv.buffer,
              coll |-> stored, batch |-> <<>>]

----------------------------------------------------------------------------
(* ble_data_collector.py *)

\* "Print progress every 10 samples"
ProgressPeriod == 10

\* except Exception in notification_handler
BleExcept == {"Exception"}

\* notification_handler up to csv_writer.writerow(values): the row it
\* writes, if it writes one
BleRow(data) ==
    LET decoded == DecodeStrict(data)
        text == Strip(decoded.val)
        values == Split(text)
        skip == [exc |-> "None", out |-> <<>>, wrote |-> FALSE, values |-> <<>>]
    IN  IF decoded.exc # "None" THEN [skip EXCEPT !.exc = decoded.exc]
        ELSE IF text = <<>> \/ StartsWith(text, <<"m", "e", "a", "n">>)
                \/ StartsWith(text, <<">", ">", ">">>)
        THEN skip
        ELSE IF Len(values) # CsvWidth
        THEN [skip EXCEPT !.out = <<Line("Skipping malformed line", text,
                                         <<Num(Len(values))>>)>>]
        ELSE [exc |-> "None", out |-> <<>>, wrote |-> TRUE, values |-> values]

\* BleRow on every payload, worked out once
BleRows == [data \in BlePayloads |-> BleRow(data)]

BleWrite(data, rows) ==
    LET w == BleRows[data]
    IN  [exc |-> w.exc, out |-> w.out, wrote |-> w.wrote, values |-> w.values,
         rows |-> IF w.wrote THEN Append(rows, w.values) ELSE rows]

\* a handler that writes the row and leaves data_count as it was
BleCountSkipped(values, count) == [count |-> count, out |-> <<>>]

\* data_count += 1 and the progress line
BleCount(values, count) ==
    [count |-> count + 1,
     out |-> IF (count + 1) % ProgressPeriod = 0
             THEN <<Line("Collected samples", values[11], <<Num(count + 1)>>)>>
             ELSE <<>>]

\* the except clause of notification_handler
BleExceptLines(exc, data) ==
    IF Caught(exc, BleExcept)
    THEN <<Line("Error processing data", <<exc>>, <<>>), Line("Raw data", data, <<>>)>>
    ELSE <<>>

\* notification_handler(sender, data), run to completion
ble_notification_handler(data, rows, count) ==
    LET w == BleWrite(data, rows)
        c == BleCount(w.values, count)
    IN  [out |-> w.out \o (IF w.wrote THEN c.out ELSE <<>>) \o BleExceptLines(w.exc, data),
         rows |-> w.rows,
         count |-> IF w.wrote THEN c.count ELSE count,
         escaped |-> IF Caught(w.exc, BleExcept) THEN "None" ELSE w.exc]

----------------------------------------------------------------------------
(* State *)

\* the state of a program: all of it is lost when the program ends
procVars == <<prog, pc, exitStatus, scanned, model, scaler, label_encoder,
              prediction_count, buffer, submitted, coll, data_count, csv_rows,
              lastPayload, out, calls, escaped, delivered, returned, pending,
              running>>

NoProcess ==
    /\ prog = "none"
    /\ pc = "off"
    /\ exitStatus = -1
    /\ scanned = FALSE
    /\ model = NoModel
    /\ scaler = NoScaler
    /\ label_encoder = NoEncoder
    /\ prediction_count = 0
    /\ buffer = <<>>
    /\ submitted = <<>>
    /\ coll = <<>>
    /\ data_count = 0
    /\ csv_rows = <<>>
    /\ lastPayload = <<>>
    /\ out = <<>>
    /\ calls = <<>>
    /\ escaped = "None"
    /\ delivered = 0
    /\ returned = 0
    /\ pending = <<>>
    /\ running = <<>>

Init ==
    /\ files \in {EmptyDir, NotebookDir, BrokenDir, NoEncoderDir}
    /\ report = NoReport
    /\ NoProcess

\* live_predictor.py makes at most MaxPredictions predictions
MaxPredictions == 10

\* node_collection_code.py passes at most MaxDocs documents to MongoDB
MaxDocs == 2

----------------------------------------------------------------------------
(* Actions *)

\* one run of train_best_model.py, from the read of the CSV to the dumps; a
\* run that cannot split or fit ends with a traceback and saves nothing
train_best_model ==
    /\ pc = "off"
    /\ \E y \in [LabelNames -> ClassCounts], xgb \in BOOLEAN,
          acc \in [{"Random Forest", "XGBoost", "SVM RBF"} -> 0..MaxAcc],
          mu \in 0..MaxMean :
          /\ ~xgb => acc["XGBoost"] = 0
          \* what the run never gets to use is left at its least value
          /\ ~CanTrain(y) => (~xgb /\ mu = 0 /\ \A c \in DOMAIN acc : acc[c] = 0)
          /\ ~UsesScaler(BestName(Candidates(xgb), acc)) => mu = 0
          /\ IF CanTrain(y)
             THEN /\ files' = TrainedFiles(files, y, xgb, acc, mu)
                  /\ report' = TrainedReport(y, xgb, acc)
             ELSE /\ files' = files
                  /\ report' = [NoReport EXCEPT !.status = "failed"]
    /\ UNCHANGED procVars

\* python rpi_application_code.py, up to asyncio.run(main()): the load at
\* module level, and sys.exit(1) or the traceback's exit when it fails
StartRpi ==
    /\ pc = "off"
    /\ LET b == RpiLoad(files)
       IN  /\ prog' = "rpi"
           /\ pc' = IF b.exc = "None" THEN "loaded" ELSE "exited"
           /\ exitStatus' = IF b.exc = "None" THEN -1 ELSE 1
           /\ model' = b.model
           /\ scaler' = b.scaler
           /\ label_encoder' = b.label_encoder
    /\ report' = NoReport
    /\ UNCHANGED <<files, scanned, prediction_count, buffer, submitted, coll,
                   data_count, csv_rows, lastPayload, out, calls, escaped,
                   delivered, returned, pending, running>>

\* python live_predictor.py, up to asyncio.run(main())
StartLive ==
    /\ pc = "off"
    /\ LET b == load_model_with_fallback(files)
       IN  /\ prog' = "live"
           /\ pc' = IF b.model.kind # "None" THEN "loaded" ELSE "exited"
           /\ exitStatus' = IF b.model.kind # "None" THEN -1 ELSE 1
           /\ model' = b.model
           /\ scaler' = b.scaler
           /\ label_encoder' = b.label_encoder
    /\ report' = NoReport
    /\ UNCHANGED <<files, scanned, prediction_count, buffer, submitted, coll,
                   data_count, csv_rows, lastPayload, out, calls, escaped,
                   delivered, returned, pending, running>>

\* python node_collection_code.py, up to the scan: nothing is loaded.  The
\* readings are collected before the first model is trained on them.
StartNode ==
    /\ pc = "off"
    /\ files.best = NoModel
    /\ prog' = "node"
    /\ pc' = "loaded"
    /\ report' = NoReport
    /\ UNCHANGED <<files, exitStatus, scanned, model, scaler, label_encoder,
                   prediction_count, buffer, submitted, coll, data_count, csv_rows,
                   lastPayload, out, calls, escaped, delivered, returned,
                   pending, running>>

\* main(): BleakScanner.discover, the connection and start_notify; main
\* returns when no device matches or the connection fails
Scan ==
    /\ pc = "loaded"
    /\ scanned' = TRUE
    /\ \E found \in BOOLEAN :
          /\ pc' = IF found THEN "subscribed" ELSE "exited"
          /\ exitStatus' = IF found THEN -1 ELSE 0
    /\ UNCHANGED <<files, report, prog, model, scaler, label_encoder,
                   prediction_count, buffer, submitted, coll, data_count, csv_rows,
                   lastPayload, out, calls, escaped, delivered, returned,
                   pending, running>>

\* rpi_application_code.py: one notification, handled to completion
RpiNotify ==
    /\ prog = "rpi" /\ pc = "subscribed"
    /\ \E data \in RpiPayloads :
          \E h \in {RpiHandled[data, model, scaler, label_encoder]} :
             /\ lastPayload' = data
             /\ out' = h.out
             /\ calls' = h.calls
             /\ escaped' = h.escaped
    /\ UNCHANGED <<files, report, prog, pc, exitStatus, scanned, model, scaler,
                   label_encoder, prediction_count, buffer, submitted, coll,
                   data_count, csv_rows, delivered, returned, pending, running>>

\* live_predictor.py: one notification, handled to completion
LiveNotify ==
    /\ prog = "live" /\ pc = "subscribed"
    /\ prediction_count < MaxPredictions
    /\ \E data \in LivePayloads :
          \E h \in {live_notification_handler(data, model, scaler, label_encoder,
                                              prediction_count)} :
             /\ lastPayload' = data
             /\ out' = h.out
             /\ calls' = h.calls
             /\ escaped' = h.escaped
             /\ prediction_count' = h.count
    /\ UNCHANGED <<files, report, prog, pc, exitStatus, scanned, model, scaler,
                   label_encoder, buffer, submitted, coll, data_count, csv_rows,
                   delivered, returned, pending, running>>

\* node_collection_code.py: one notification, handled to completion
NodeNotify ==
    /\ prog = "node" /\ pc = "subscribed"
    /\ Len(submitted) < MaxDocs
    /\ \E data \in NodePayloads, db \in DbOutcomes :
          \E h \in {node_handle_notify(data, buffer, coll, db)} :
             /\ lastPayload' = data
             /\ out' = h.out
             /\ calls' = <<>>
             /\ escaped' = h.escaped
             /\ buffer' = h.buffer
             /\ coll' = h.coll
             /\ submitted' = submitted \o h.batch
    /\ UNCHANGED <<files, report, prog, pc, exitStatus, scanned, model, scaler,
                   label_encoder, prediction_count, data_count, csv_rows,
                   delivered, returned, pending, running>>

\* the program ends (Ctrl+C, or it has exited): its state is gone
Stop ==
    /\ pc \in {"subscribed", "exited"}
    /\ prog' = "none"
    /\ pc' = "off"
    /\ exitStatus' = -1
    /\ scanned' = FALSE
    /\ model' = NoModel
    /\ scaler' = NoScaler
    /\ label_encoder' = NoEncoder
    /\ prediction_count' = 0
    /\ buffer' = <<>>
    /\ submitted' = <<>>
    /\ coll' = <<>>
    /\ data_count' = 0
    /\ csv_rows' = <<>>
    /\ lastPayload' = <<>>
    /\ out' = <<>>
    /\ calls' = <<>>
    /\ escaped' = "None"
    /\ delivered' = 0
    /\ returned' = 0
    /\ pending' = <<>>
    /\ running' = <<>>
    /\ UNCHANGED <<files, report>>

Next ==
    \/ train_best_model
    \/ StartRpi
    \/ StartLive
    \/ StartNode
    \/ Scan
    \/ RpiNotify
    \/ LiveNotify
    \/ NodeNotify
    \/ Stop

Spec == Init /\ [][Next]_vars

----------------------------------------------------------------------------
(* The event loop: the callbacks of the three programs that keep a global,
   taken one statement group at a time *)

\* the BLE stack delivers at most MaxDelivered notifications
MaxDelivered == 3

\* a reading of the right width, one a field short, and one with a byte
\* that is not UTF-8
LoopPayloads(width) ==
    {MkPayload(width, 0, <<>>), MkPayload(width - 1, 0, <<>>),
     MkPayload(width, 2, <<"1", BadByte>>)}

LoopWidth ==
    CASE prog = "live" -> LiveWidth
      [] prog = "node" -> NodeWidth
      [] OTHER -> CsvWidth

\* what the sketch sends the collector besides readings: an empty line, the
\* header line and a ">>>" status line
LoopLines ==
    IF prog = "ble"
    THEN {<<>>, HeaderLine(CsvWidth), <<">", ">", ">">> \o MkPayload(CsvWidth, 0, <<>>)}
    ELSE {}

\* a callback that has been called and has not returned: its argument, the
\* statement it is at, and the value of the program's global it last saw
Frame(seq, data, at, seen) == [seq |-> seq, data |-> data, at |-> at, seen |-> seen]

\* running without frame i
Return(i) == SubSeq(running, 1, i - 1) \o SubSeq(running, i + 1, Len(running))

\* a loop that calls the next callback whatever is running
LoopIdleAlways(frames) == TRUE

\* The handlers are plain functions (def, no await) that bleak calls from
\* the loop's thread: the loop calls the next one only when none is running.
LoopIdle(frames) == frames = <<>>

\* python ble_data_collector.py, up to the scan: nothing is loaded
StartBle ==
    /\ pc = "off"
    /\ prog' = "ble"
    /\ pc' = "loaded"
    /\ UNCHANGED <<files, report, exitStatus, scanned, model, scaler, label_encoder,
                   prediction_count, buffer, submitted, coll, data_count, csv_rows,
                   lastPayload, out, calls, escaped, delivered, returned,
                   pending, running>>

\* the BLE stack hands the loop a notification
Arrive ==
    /\ prog \in {"live", "node", "ble"} /\ pc = "subscribed"
    /\ delivered < MaxDelivered
    /\ \E data \in LoopPayloads(LoopWidth) \cup LoopLines :
          pending' = Append(pending, [seq |-> delivered + 1, data |-> data])
    /\ delivered' = delivered + 1
    /\ UNCHANGED <<files, report, prog, pc, exitStatus, scanned, model, scaler,
                   label_encoder, prediction_count, buffer, submitted, coll,
                   data_count, csv_rows, lastPayload, out, calls, escaped,
                   returned, running>>

\* the loop calls the callback on the oldest pending notification
Dispatch ==
    /\ pending # <<>>
    /\ LoopIdle(running)
    /\ running' = Append(running, Frame(Head(pending).seq, Head(pending).data,
                                        "start", 0))
    /\ pending' = Tail(pending)
    /\ lastPayload' = Head(pending).data
    /\ out' = <<>>
    /\ UNCHANGED <<files, report, prog, pc, exitStatus, scanned, model, scaler,
                   label_encoder, prediction_count, buffer, submitted, coll,
                   data_count, csv_rows, calls, escaped, delivered, returned>>

\* node handle_notify: the print, parse_reading and buffer.append(doc)
NodeAppend ==
    /\ prog = "node"
    /\ \E i \in 1..Len(running) :
          /\ running[i].at = "start"
          /\ \E rcv \in {NodeReceive(running[i].data, buffer)} :
             LET goes == rcv.accepted /\ NodeBatchFull(rcv.buffer)
             IN  /\ buffer' = rcv.buffer
                 /\ out' = out \o rcv.out
                 /\ escaped' = rcv.exc
                 /\ running' = IF goes
                               THEN [running EXCEPT ![i].at = "insert",
                                                    ![i].seen = Len(rcv.buffer)]
                               ELSE Return(i)
                 /\ returned' = IF goes THEN returned ELSE returned + 1
    /\ UNCHANGED <<files, report, prog, pc, exitStatus, scanned, model, scaler,
                   label_encoder, prediction_count, submitted, coll, data_count,
                   csv_rows, lastPayload, calls, delivered, pending>>

\* node handle_notify: insert_many(buffer), the print and buffer = []
NodeInsert ==
    /\ prog = "node"
    /\ \E i \in 1..Len(running), db \in DbOutcomes :
          /\ running[i].at = "insert"
          /\ \E flush \in {NodeFlush(buffer, coll, db)} :
                /\ buffer' = flush.buffer
                /\ coll' = flush.coll
                /\ submitted' = submitted \o flush.batch
                /\ out' = out \o flush.out
                /\ escaped' = flush.escaped
          /\ running' = Return(i)
    /\ returned' = returned + 1
    /\ UNCHANGED <<files, report, prog, pc, exitStatus, scanned, model, scaler,
                   label_encoder, prediction_count, data_count, csv_rows,
                   lastPayload, calls, delivered, pending>>

\* ble notification_handler: up to csv_writer.writerow(values)
BleWriteRow ==
    /\ prog = "ble"
    /\ \E i \in 1..Len(running) :
          /\ running[i].at = "start"
          /\ \E w \in {BleWrite(running[i].data, csv_rows)} :
                 /\ csv_rows' = w.rows
                 /\ out' = out \o w.out \o BleExceptLines(w.exc, running[i].data)
                 /\ escaped' = IF Caught(w.exc, BleExcept) THEN "None" ELSE w.exc
                 /\ running' = IF w.wrote
                               THEN [running EXCEPT ![i].at = "count",
                                                    ![i].seen = Len(w.rows)]
                               ELSE Return(i)
                 /\ returned' = IF w.wrote THEN returned ELSE returned + 1
    /\ UNCHANGED <<files, report, prog, pc, exitStatus, scanned, model, scaler,
                   label_encoder, prediction_count, buffer, submitted, coll,
                   data_count, lastPayload, calls, delivered, pending>>

\* ble notification_handler: data_count += 1 and the progress line
BleCountRow ==
    /\ prog = "ble"
    /\ \E i \in 1..Len(running) :
          /\ running[i].at = "count"
          /\ \E c \in {BleCount(BleRows[running[i].data].values, data_count)} :
                /\ data_count' = c.count
                /\ out' = out \o c.out
          /\ running' = Return(i)
    /\ returned' = returned + 1
    /\ UNCHANGED <<files, report, prog, pc, exitStatus, scanned, model, scaler,
                   label_encoder, prediction_count, buffer, submitted, coll,
                   csv_rows, lastPayload, calls, escaped, delivered, pending>>

\* live notification_handler: up to the return of predict_movement_direction,
\* which increments prediction_count
LivePredict ==
    /\ prog = "live"
    /\ \E i \in 1..Len(running) :
          /\ running[i].at = "start"
          /\ \E phase \in {LivePredicted[running[i].data, model, scaler,
                                           label_encoder]} :
             LET goes == phase.exc = "None" /\ ~phase.result.none
             IN  /\ prediction_count' = prediction_count + phase.incr
                 /\ calls' = phase.calls
                 /\ out' = out \o phase.out \o LiveExceptLines(phase.exc)
                 /\ escaped' = LiveEscaped(phase.exc)
                 /\ running' = IF goes
                               THEN [running EXCEPT
                                        ![i].at = "print",
                                        ![i].seen = prediction_count + phase.incr]
                               ELSE Return(i)
                 /\ returned' = IF goes THEN returned ELSE returned + 1
    /\ UNCHANGED <<files, report, prog, pc, exitStatus, scanned, model, scaler,
                   label_encoder, buffer, submitted, coll, data_count, csv_rows,
                   lastPayload, delivered, pending>>

\* live notification_handler: `if result:` and its prints
LivePrint ==
    /\ prog = "live"
    /\ \E i \in 1..Len(running) :
          /\ running[i].at = "print"
          /\ \E phase \in {LivePredicted[running[i].data, model, scaler,
                                           label_encoder]} :
                out' = out \o LivePrintPhase(phase, prediction_count)
          /\ running' = Return(i)
    /\ returned' = returned + 1
    /\ UNCHANGED <<files, report, prog, pc, exitStatus, scanned, model, scaler,
                   label_encoder, prediction_count, buffer, submitted, coll,
                   data_count, csv_rows, lastPayload, calls, escaped, delivered,
                   pending>>

NextLoop ==
    \/ StartLive
    \/ StartNode
    \/ StartBle
    \/ Scan
    \/ Arrive
    \/ Dispatch
    \/ NodeAppend
    \/ NodeInsert
    \/ BleWriteRow
    \/ BleCountRow
    \/ LivePredict
    \/ LivePrint

SpecLoop == Init /\ [][NextLoop]_vars

----------------------------------------------------------------------------
(* What a run shows *)

\* the lines of the last handler's output with the fixed text t
Lines(t) == SelectSeq(out, LAMBDA l : l.t = t)

Printed(t) == Lines(t) # <<>>

\* the non-empty comma-separated fields of a payload, spaces and
\* undecodable bytes left out
Fields(data) == NonEmpty(Split(RemoveSpaces(Strip(DecodeIgnore(data)))))

\* the first NumFeatures fields of a payload all parse as numbers
Numeric(data) ==
    /\ Len(Fields(data)) >= NumFeatures
    /\ \A i \in 1..NumFeatures : ParseFloat(Fields(data)[i]).exc = "None"

\* the float32 vector of the first NumFeatures fields
Vector(data) ==
    List([i \in 1..NumFeatures |-> ToFloat32(ParseFloat(Fields(data)[i]).val)])

\* rpi_application_code.py has handled a notification
RpiAnswered == prog = "rpi" /\ pc = "subscribed" /\ out # <<>>

\* the step is the handling of one notification
NotifyStep == prog \in {"rpi", "live", "node"} /\ pc = "subscribed" /\ pc' = "subscribed"

----------------------------------------------------------------------------
(* C1 *)

\* the three library calls on the vector x, and the label they end in
PipelineOf(x) ==
    LET s == ScalerTransform(scaler, x)
        e == ModelPredict(model, s.val)
        l == InverseTransform(label_encoder, e.val)
    IN  [ok |-> s.exc = "None" /\ e.exc = "None" /\ l.exc = "None",
         calls |-> <<Call("scaler.transform", x), Call("model.predict", s.val),
                     Call("label_encoder.inverse_transform", <<Num(e.val)>>)>>,
         label |-> l.val]

TooShortAnswer ==
    /\ Printed("Error: Expected at least 18 features")
    /\ ~Printed("Predicted")
    /\ calls = <<>>

\* C1 as stated: once rpi_application_code.handle_notify has handled a
\* payload with at least 18 non-empty fields of which the first 18 are
\* numbers, it has called the scaler, the classifier and the decoder in that
\* order on the 18-entry vector and printed exactly one label, the decoding
\* of the classifier's output for the scaled vector; for a payload with fewer
\* than 18 fields it has printed an error and made no prediction.
C1_AlwaysPredicts ==
    RpiAnswered =>
        /\ Numeric(lastPayload) =>
              LET p == PipelineOf(Vector(lastPayload))
              IN  /\ calls = p.calls
                  /\ Lines("Predicted") = <<Line("Predicted", <<p.label>>, <<>>)>>
        /\ Len(Fields(lastPayload)) < NumFeatures => TooShortAnswer

\* C1, amended: the label is printed when the scaler, the classifier and
\* the decoder all accept what they are given (every entry finite, the
\* widths they were fitted on, an index the encoder knows); when one of them
\* raises, the handler has printed one "Error processing data" line and no
\* label.  The short payload is as stated.
C1_PredictsUnlessRaised ==
    RpiAnswered =>
        /\ Numeric(lastPayload) =>
              LET p == PipelineOf(Vector(lastPayload))
              IN  IF p.ok
                  THEN /\ calls = p.calls
                       /\ Lines("Predicted") = <<Line("Predicted", <<p.label>>, <<>>)>>
                       /\ ~Printed("Error processing data")
                  ELSE /\ ~Printed("Predicted")
                       /\ Len(Lines("Error processing data")) = 1
        /\ Len(Fields(lastPayload)) < NumFeatures => TooShortAnswer

\* C1's case: a payload of 18 numbers has been answered with a label
C1_Witness == RpiAnswered /\ Numeric(lastPayload) /\ Printed("Predicted")

----------------------------------------------------------------------------
(* C10 *)

\* C10 as stated: when rpi_application_code.handle_notify has printed a
\* prediction, entry i of the vector it gave the scaler is the numeric value
\* of the payload's i-th comma-separated field, for i = 1..18.
C10_EntryIsIthField ==
    (RpiAnswered /\ Printed("Predicted")) =>
        LET raw == Split(DecodeIgnore(lastPayload))
        IN  /\ Len(raw) >= NumFeatures
            /\ \A i \in 1..NumFeatures :
                  /\ ParseFloat(raw[i]).exc = "None"
                  /\ calls[1].arg[i] = ParseFloat(raw[i]).val

\* C10, amended: entry i is the float32 nearest to the numeric value of the
\* i-th non-empty field, the fields taken after every space has been
\* removed from the payload and the empty ones dropped.
C10_EntryIsIthNonEmptyField ==
    (RpiAnswered /\ Printed("Predicted")) =>
        /\ calls[1].fn = "scaler.transform"
        /\ Len(calls[1].arg) = NumFeatures
        /\ \A i \in 1..NumFeatures :
              calls[1].arg[i] = ToFloat32(ParseFloat(Fields(lastPayload)[i]).val)

\* C10's case: a prediction from a payload one of whose fields was empty
C10_Witness ==
    /\ RpiAnswered /\ Printed("Predicted")
    /\ Len(Split(DecodeIgnore(lastPayload))) > Len(Fields(lastPayload))

----------------------------------------------------------------------------
(* C4 *)

\* C4 as stated: a predictor started after some training run, predicting
\* with the model that run saved, applies scaler.transform to the vector
\* exactly when that model has uses_scaler true.
C4_ScalesIffTrainedScaled ==
    (/\ prog \in {"rpi", "live"} /\ pc = "subscribed"
     /\ Exists(files.best) /\ model = files.best
     /\ calls # <<>>)
    => ((calls[1].fn = "scaler.transform") <=> files.best.scaled)

----------------------------------------------------------------------------
(* C5 *)

\* the files a start needs are not all there
Unloadable ==
    IF prog = "rpi"
    THEN files.best = NoModel \/ files.scaler = NoScaler \/ files.enc = NoEncoder
    ELSE files.enc = NoEncoder \/ (files.best = NoModel /\ files.svm = NoModel)

BundleIsThere == model.kind # "None" /\ label_encoder.kind # "None"

\* C5: in rpi_application_code and live_predictor the bundle changes only
\* when the process starts or ends; a process that has scanned, subscribed
\* or handled a notification holds a classifier and a label encoder; and a
\* process whose bundle cannot be loaded has exited with status 1 and has
\* not scanned.
C5_LoadedOnceBeforeScan ==
    /\ [](prog \in {"rpi", "live"} =>
            /\ (scanned \/ pc \in {"loaded", "subscribed"} \/ out # <<>>)
                  => BundleIsThere
            /\ Unloadable => (pc = "exited" /\ exitStatus = 1 /\ ~scanned))
    /\ [][<<model, scaler, label_encoder>>' # <<model, scaler, label_encoder>>
             => (pc = "off" \/ pc' = "off")]_vars

\* C5's case: rpi_application_code finds a saved model and no scaler file
C5_Witness ==
    /\ prog = "rpi" /\ pc = "exited" /\ exitStatus = 1 /\ ~scanned
    /\ files.best # NoModel /\ files.scaler = NoScaler

----------------------------------------------------------------------------
(* C9 *)

\* C9: after a run of train_best_model that saved, the saved classifier is
\* of the kind of a trained candidate, no trained candidate has a greater
\* accuracy, and every candidate trained before it has a smaller one.
C9_BestByAccuracy ==
    report.status = "saved" =>
        LET names == report.trained
        IN  \E b \in 1..Len(names) :
               /\ names[b] = report.best
               /\ files.best.kind = CandidateKind(names[b])
               /\ \A j \in 1..Len(names) :
                     report.accuracy[names[j]] <= report.accuracy[names[b]]
               /\ \A j \in 1..(b - 1) :
                     report.accuracy[names[j]] < report.accuracy[names[b]]

\* C9's case: three candidates were trained and all reached the same accuracy
C9_Witness ==
    /\ report.status = "saved"
    /\ Len(report.trained) = 3
    /\ \A j \in 1..3 : report.accuracy[report.trained[j]] = MaxAcc

----------------------------------------------------------------------------
(* C7 *)

\* C7: after a run of train_best_model that saved, the saved encoder gives
\* the class names of the training data distinct indices, decodes each
\* name's index back to the name, and decodes every index the saved
\* classifier can predict to a name of the training data; and every label
\* rpi_application_code prints is a class of the encoder it loaded, which is
\* the saved one.
C7_EncoderBijective ==
    /\ report.status = "saved" =>
          LET names == {l \in LabelNames : report.labels[l] > 0}
              enc == files.enc
          IN  /\ \A a \in names :
                    /\ LabelEncoderTransform(enc, a).exc = "None"
                    /\ InverseTransform(enc, LabelEncoderTransform(enc, a).val).val = a
              /\ \A a, b \in names :
                    a # b => LabelEncoderTransform(enc, a).val
                                # LabelEncoderTransform(enc, b).val
              /\ \A idx \in 0..(files.best.k - 1) :
                    /\ InverseTransform(enc, idx).exc = "None"
                    /\ InverseTransform(enc, idx).val \in names
    /\ (prog = "rpi" /\ pc = "subscribed") =>
          /\ label_encoder = files.enc /\ model = files.best
          /\ \A i \in 1..Len(Lines("Predicted")) :
                \E j \in 1..Len(label_encoder.classes) :
                   Lines("Predicted")[i].s = <<label_encoder.classes[j]>>

\* C7's case: a label printed under an encoder of three classes
C7_Witness ==
    RpiAnswered /\ Printed("Predicted") /\ Len(label_encoder.classes) = Len(LabelOrder)

----------------------------------------------------------------------------
(* C8 *)

\* the document C8 expects for a payload, None for a payload it rejects
ExpectedDoc(payload) ==
    LET decoded == DecodeStrict(payload)
        text == Strip(decoded.val)
        fields == NonEmpty(Split(RemoveSpaces(text)))
    IN  IF decoded.exc = "None" /\ Len(fields) = NodeWidth
        THEN [kind |-> "doc", raw |-> text, data |-> fields]
        ELSE NoDoc

\* C8: node_collection_code's handle_notify passes to insert_many exactly
\* the document of the payload (data: its 20 non-empty fields in payload
\* order, spaces removed; raw: the stripped text) when the payload is valid
\* UTF-8 and has exactly 20 such fields; for every other payload it leaves
\* the buffer and the collection as they were and passes nothing.
C8_ParseReading ==
    [][(prog = "node" /\ NotifyStep) =>
          /\ parse_reading(lastPayload').doc = ExpectedDoc(lastPayload')
          /\ IF ExpectedDoc(lastPayload') # NoDoc
             THEN submitted' = Append(submitted, ExpectedDoc(lastPayload'))
             ELSE /\ submitted' = submitted
                  /\ buffer' = buffer
                  /\ coll' = coll]_vars

\* C8's case: a stored document whose raw text is not just its fields joined
C8_Witness ==
    /\ prog = "node"
    /\ coll # <<>>
    /\ coll[Len(coll)].raw # Join(coll[Len(coll)].data)

----------------------------------------------------------------------------
(* C2 *)

\* the last handler neither predicted nor inserted
Failed(lines) ==
    \A i \in 1..Len(lines) : lines[i].t \notin {"Predicted", "Inserted docs"}

\* C2: no exception leaves rpi_application_code.handle_notify,
\* live_predictor.notification_handler or node_collection_code.handle_notify,
\* and a notification that ends in an error or is dropped leaves the bundle,
\* prediction_count and the buffer as they were, so that the next one is
\* handled as if it had not arrived.
C2_NoPayloadFails ==
    /\ [](escaped = "None")
    /\ [][(NotifyStep /\ Failed(out')) =>
             UNCHANGED <<model, scaler, label_encoder, prediction_count, buffer>>]_vars

\* C2's case: insert_many failed and handle_notify carried on
C2_Witness == prog = "node" /\ pc = "subscribed" /\ Printed("Insert failed")

----------------------------------------------------------------------------
(* C3 *)

\* what the handler of the running predictor prints for the last payload
\* when it is the first notification of the process
FreshOut ==
    IF prog = "rpi"
    THEN rpi_handle_notify(lastPayload, model, scaler, label_encoder).out
    ELSE live_notification_handler(lastPayload, model, scaler, label_encoder, 0).out

Answered == prog \in {"rpi", "live"} /\ pc = "subscribed" /\ lastPayload # <<>>

----------------------------------------------------------------------------
(* C6 *)

\* the sequence numbers of the notifications not yet handled to the end,
\* the running ones first
Unfinished ==
    [i \in 1..(Len(running) + Len(pending)) |->
        IF i <= Len(running) THEN running[i].seq ELSE pending[i - Len(running)].seq]

\* the global a callback updates is as the callback at frame f left it, or,
\* for a callback that has not touched it yet, between two updates
Undisturbed(f) ==
    CASE f.at = "start" ->
            /\ prog = "node" => Len(buffer) < BATCH_SIZE
            /\ prog = "ble" => data_count = Len(csv_rows)
      [] f.at = "insert" -> Len(buffer) = f.seen
      [] f.at = "count" -> Len(csv_rows) = f.seen /\ data_count = f.seen - 1
      [] OTHER -> prediction_count = f.seen

\* C6: at most one callback is in progress; the callbacks finish in the
\* order the notifications arrived; and every callback in progress finds the
\* buffer, data_count and prediction_count as it left them, and not in the
\* middle of another callback's update.
C6_NoInterleaving ==
    /\ Len(running) <= 1
    /\ \A i \in 1..Len(Unfinished) : Unfinished[i] = returned + i
    /\ \A i \in 1..Len(running) : Undisturbed(running[i])

\* C6's case: a notification arrives while a callback is between its update
\* of the global and its return
C6_Witness ==
    /\ running # <<>>
    /\ running[1].at \in {"insert", "count", "print"}
    /\ pending # <<>>

----------------------------------------------------------------------------
(* C11 *)

\* C11 as stated: a predictor that runs the classifier train_best_model
\* saved builds, from every payload it takes a vector from, a vector of as
\* many entries as the classifier was fitted on, and every vector it gives
\* model.predict has that many entries.
C11_VectorHasTrainedWidth ==
    (/\ prog \in {"rpi", "live"} /\ pc = "subscribed"
     /\ Exists(files.best) /\ model = files.best)
    => \A i \in 1..Len(calls) :
          (i = 1 \/ calls[i].fn = "model.predict")
             => Len(calls[i].arg) = files.best.n

----------------------------------------------------------------------------
(* C12 *)

\* a file that is there and unpickles
Loads(obj) == obj.kind \notin {"None", "Corrupt"}

\* the candidate live_predictor.py should end up with: the best model when
\* it and the label encoder load, else the SVM when it and the label
\* encoder load, else none
FirstLoadable ==
    IF Loads(files.best) /\ Loads(files.enc) THEN files.best
    ELSE IF Loads(files.svm) /\ Loads(files.enc) THEN files.svm
    ELSE NoModel

\* C12: live_predictor.py runs the first of best_motion_classifier.pkl and
\* svm_motion_classifier.pkl that loads together with label_encoder.pkl, with
\* the scaler of feature_scaler.pkl when that file is there and loads and no
\* scaler otherwise; it has nothing loaded and has exited with status 1
\* exactly when neither candidate loads together with the label encoder.
C12_FirstLoadableCandidate ==
    prog = "live" =>
        /\ model = FirstLoadable
        /\ FirstLoadable # NoModel =>
              /\ label_encoder = files.enc
              /\ scaler = IF Loads(files.scaler) THEN files.scaler ELSE NoScaler
        /\ FirstLoadable = NoModel =>
              /\ label_encoder = NoEncoder
              /\ scaler = NoScaler
        /\ (pc = "exited" /\ exitStatus = 1) <=> FirstLoadable = NoModel
        /\ pc = "exited" \/ exitStatus = -1

\* live_predictor.py is subscribed with the SVM it fell back to and without
\* a scaler, in a directory whose best model and scaler do not unpickle
C12_Witness ==
    /\ prog = "live" /\ pc = "subscribed"
    /\ Exists(files.best) /\ ~Loads(files.best)
    /\ model = files.svm
    /\ Exists(files.scaler) /\ scaler = NoScaler

----------------------------------------------------------------------------
(* C13 *)

\* the payloads the collector is to write: UTF-8, something left after
\* stripping, no 'mean' and no '>>>' in front, twelve values between commas
BleValid(data) ==
    /\ DecodeStrict(data).exc = "None"
    /\ LET text == Strip(DecodeStrict(data).val)
       IN  /\ text # <<>>
           /\ ~StartsWith(text, <<"m", "e", "a", "n">>)
           /\ ~StartsWith(text, <<">", ">", ">">>)
           /\ Len(Split(text)) = CsvWidth

\* the collector's callback is called and has not yet passed writerow
BleAtStart == prog = "ble" /\ Len(running) = 1 /\ running[1].at = "start"

\* C13: the collector's callback appends a row, the payload's twelve values,
\* exactly when the payload is valid; a payload that is skipped or fails
\* leaves the rows and data_count as they were; rows change in no other way;
\* and whenever no callback is running data_count is the number of rows.
C13_RowIffValid ==
    /\ [](prog = "ble" /\ running = <<>> => data_count = Len(csv_rows))
    /\ [][BleAtStart /\ running' # running =>
            IF BleValid(running[1].data)
            THEN csv_rows' = Append(csv_rows,
                                    Split(Strip(DecodeStrict(running[1].data).val)))
            ELSE /\ csv_rows' = csv_rows
                 /\ data_count' = data_count
                 /\ running' = <<>>]_vars
    /\ [][csv_rows' # csv_rows => BleAtStart /\ BleValid(running[1].data)]_vars
    /\ [][data_count' # data_count =>
            /\ prog = "ble" /\ running' = <<>>
            /\ data_count' = data_count + 1
            /\ data_count' = Len(csv_rows)]_vars

\* three notifications have returned, one of them skipped or failed, and the
\* two rows of the others are counted
C13_Witness ==
    /\ prog = "ble" /\ running = <<>> /\ returned = 3
    /\ Len(csv_rows) = 2 /\ data_count = 2

----------------------------------------------------------------------------
(* C14 *)

\* the collector's one running callback is at statement `at`
NodeAt(at) == prog = "node" /\ Len(running) = 1 /\ running[1].at = at

\* C14: in node_collection_code the buffer is empty whenever no callback is
\* running; a callback whose payload parse_reading accepts buffers that one
\* document and goes on to insert_many, any other returns with nothing
\* buffered or submitted; the callback at insert_many submits its own
\* document, once, before it returns; and nothing else submits a document,
\* so that the documents are submitted once each and in arrival order.
C14_OneDocPerCallback ==
    /\ [](prog = "node" /\ running = <<>> => buffer = <<>>)
    /\ [](prog = "node" => Len(buffer) <= BATCH_SIZE)
    /\ [][NodeAt("start") /\ running' # running =>
            IF ExpectedDoc(running[1].data) # NoDoc
            THEN /\ buffer' = <<ExpectedDoc(running[1].data)>>
                 /\ Len(running') = 1
                 /\ running'[1].at = "insert"
                 /\ running'[1].data = running[1].data
                 /\ submitted' = submitted
            ELSE /\ running' = <<>>
                 /\ buffer' = <<>>
                 /\ submitted' = submitted]_vars
    /\ [][NodeAt("insert") /\ running' # running =>
            /\ running' = <<>>
            /\ submitted' = Append(submitted, ExpectedDoc(running[1].data))]_vars
    /\ [][submitted' # submitted => NodeAt("insert")]_vars
    /\ [][(prog = "node" /\ running # <<>> /\ running' # <<>>) =>
            running'[1].seq = running[1].seq]_vars
    /\ [][(prog = "node" /\ running = <<>> /\ running' # <<>>) =>
            running'[1].seq = returned + 1]_vars

\* three notifications have returned in node_collection_code, one of them
\* rejected, and the documents of the two others have been submitted
C14_Witness ==
    /\ prog = "node" /\ running = <<>> /\ returned = 3
    /\ Len(submitted) = 2 /\ buffer = <<>>

----------------------------------------------------------------------------
(* C15 *)

\* C15: every notification node_collection_code has handled leaves the
\* buffer empty, also when insert_many raised; a batch that was submitted
\* was either reported inserted or reported failed; the batch is the one
\* document of the payload at hand, so that no document of a failed batch
\* is submitted again; and a batch reported inserted has been added to the
\* collection, whatever happened to the batches before it.
C15_FailedBatchIsDropped ==
    [][(prog = "node" /\ NotifyStep) =>
          /\ buffer' = <<>>
          /\ escaped' = "None"
          /\ submitted' # submitted =>
                /\ submitted' = Append(submitted, ExpectedDoc(lastPayload'))
                /\ \E i \in 1..Len(out') :
                      out'[i].t \in {"Inserted docs", "Insert failed"}
          /\ (\E i \in 1..Len(out') : out'[i].t = "Insert failed") =>
                /\ Len(submitted') = Len(submitted) + 1
                /\ coll' \in {coll, Append(coll, ExpectedDoc(lastPayload'))}
          /\ (\E i \in 1..Len(out') : out'[i].t = "Inserted docs") =>
                /\ Len(submitted') = Len(submitted) + 1
                /\ coll' = Append(coll, ExpectedDoc(lastPayload'))]_vars

\* a batch failed and was not stored, and the next document was inserted
C15_Witness ==
    /\ prog = "node" /\ pc = "subscribed"
    /\ Len(submitted) = 2 /\ Len(coll) = 1
    /\ coll[1] = submitted[2] /\ coll[1] # submitted[1]
    /\ Printed("Inserted docs")
    /\ buffer = <<>>

====
